---------------------------- MODULE Spec2Model ----------------------------
(***************************************************************************)
(* Outlier analysis of src/app.py: the trajectory simulators               *)
(* (generate_historical_data, simulate_video_performance), the benchmark   *)
(* aggregator (calculate_benchmark), the scorer (classify_outlier_score)   *)
(* and the Videos / Shorts detail views that compose them.                 *)
(***************************************************************************)
EXTENDS Integers, Sequences, FiniteSets, TLC

(***************************************************************************)
(* Python float arithmetic.  The simulators compute int((d+1)*(total/limit))*)
(* and int(viewCount*((d+1)/age_days)) in IEEE-754 binary64, so the model  *)
(* keeps the 53-bit significand and rounds to nearest, ties to even, after *)
(* every operation.  A float is [lead, sig, exp]: lead is the leading bit  *)
(* (0 only for 0.0), sig the four 13-bit limbs below it, most significant  *)
(* first, and the value is (lead.sig as a 53-bit integer) * 2^(exp - 53).  *)
(* The operands are Python ints below 2^17, so no step leaves 32 bits.     *)
(***************************************************************************)
Precision == 53

NumLimbs == 4

LimbBits == (Precision - 1) \div NumLimbs

Limb == 2 ^ LimbBits

Pow2(n) == 2 ^ n

FloatZero == [lead |-> 0, sig |-> [i \in 1..NumLimbs |-> 0], exp |-> 0]

IsZero(f) == f.lead = 0

RECURSIVE BitLength(_)
BitLength(n) == IF n = 0 THEN 0 ELSE 1 + BitLength(n \div 2)

RECURSIVE Increment(_, _)
\* sig + 1 on the limbs 1..i; <<carry out, limbs>>
Increment(sig, i) ==
    IF i = 0 THEN <<1, sig>>
    ELSE IF sig[i] + 1 < Limb THEN <<0, [sig EXCEPT ![i] = sig[i] + 1]>>
    ELSE Increment([sig EXCEPT ![i] = 0], i - 1)

\* round to nearest, ties to even: `twice` is twice the discarded part and
\* `unit` the weight of the last kept bit, so twice = unit is the tie
RoundNearestEven(sig, exp, twice, unit) ==
    IF twice < unit \/ (twice = unit /\ sig[NumLimbs] % 2 = 0)
    THEN [lead |-> 1, sig |-> sig, exp |-> exp]
    ELSE IF Increment(sig, NumLimbs)[1] = 1
         THEN [lead |-> 1, sig |-> [i \in 1..NumLimbs |-> 0], exp |-> exp + 1]
         ELSE [lead |-> 1, sig |-> Increment(sig, NumLimbs)[2], exp |-> exp]

RECURSIVE DivLimbs(_, _, _, _)
\* long division: the next n limbs of r/den (r < den), then the remainder
DivLimbs(r, den, n, acc) ==
    IF n = 0 THEN <<acc, r>>
    ELSE DivLimbs((r * Limb) % den, den, n - 1, Append(acc, (r * Limb) \div den))

RECURSIVE ExpAbove(_, _, _)
\* least e >= 0 with a < b * 2^e
ExpAbove(a, b, e) == IF a < b * Pow2(e) THEN e ELSE ExpAbove(a, b, e + 1)

RECURSIVE ShiftBelow(_, _, _)
\* greatest s >= 0 with a * 2^s < b   (a < b)
ShiftBelow(a, b, s) ==
    IF a * Pow2(s + 1) < b THEN ShiftBelow(a, b, s + 1) ELSE s

\* q = <<limbs, remainder>> of the division by den, rounded
DivRound(q, den, e) == RoundNearestEven(q[1], e, 2 * q[2], den)

\* num/den in [1/2, 1): the leading bit is 1 and leaves 2*num - den
DivScaled(num, den, e) ==
    DivRound(DivLimbs(2 * num - den, den, NumLimbs, << >>), den, e)

DivUp(a, b, e) == DivScaled(a, b * Pow2(e), e)

DivDown(a, b, s) == DivScaled(a * Pow2(s), b, 0 - s)

\* a / b for Python ints a >= 0, b > 0: the correctly rounded quotient
FloatDiv(a, b) ==
    IF a = 0 THEN FloatZero
    ELSE IF a >= b THEN DivUp(a, b, ExpAbove(a, b, 1))
    ELSE DivDown(a, b, ShiftBelow(a, b, 0))

RECURSIVE MulLimbs(_, _, _, _)
\* sig * k from the least significant limb up; <<carry out, product limbs>>
MulLimbs(sig, k, i, st) ==
    IF i = 0 THEN st
    ELSE MulLimbs(sig, k, i - 1,
                  <<(sig[i] * k + st[1]) \div Limb,
                    <<(sig[i] * k + st[1]) % Limb>> \o st[2]>>)

RECURSIVE ShiftLimbs(_, _, _, _, _)
\* the limbs shifted right by L bits, c being the bits shifted in from
\* above; <<limbs, bits shifted out>>
ShiftLimbs(c, limbs, i, L, acc) ==
    IF i > NumLimbs THEN <<acc, c>>
    ELSE ShiftLimbs((c * Limb + limbs[i]) % Pow2(L), limbs, i + 1, L,
                    Append(acc, (c * Limb + limbs[i]) \div Pow2(L)))

MulRound(sh, exp, L) == RoundNearestEven(sh[1], exp + L, 2 * sh[2], Pow2(L))

\* top is the product above the limbs, 1 + L bits long
MulShift(top, limbs, exp, L) ==
    MulRound(ShiftLimbs(top % Pow2(L), limbs, 1, L, << >>), exp, L)

MulTop(top, limbs, exp) == MulShift(top, limbs, exp, BitLength(top) - 1)

MulProduct(p, k, exp) == MulTop(k + p[1], p[2], exp)

\* k * f for a Python int k >= 0 (exactly representable) and a float f >= 0
FloatMulInt(k, f) ==
    IF k = 0 \/ IsZero(f) THEN FloatZero
    ELSE MulProduct(MulLimbs(f.sig, k, NumLimbs, <<0, << >> >>), k, f.exp)

RECURSIVE TakeBits(_, _, _, _)
\* v extended by the next `need` bits of the limbs from limb i on
TakeBits(v, sig, i, need) ==
    IF need = 0 THEN v
    ELSE IF need >= LimbBits
         THEN TakeBits(v * Limb + sig[i], sig, i + 1, need - LimbBits)
         ELSE v * Pow2(need) + sig[i] \div Pow2(LimbBits - need)

\* int(f): truncation toward zero of a float f >= 0
FloatToInt(f) ==
    IF IsZero(f) \/ f.exp <= 0 THEN 0 ELSE TakeBits(1, f.sig, 1, f.exp - 1)

\* x.sig >= y.sig, limb by limb from the most significant
SigGE(x, y) ==
    \/ x = y
    \/ \E i \in 1..NumLimbs : x[i] > y[i] /\ \A j \in 1..(i - 1) : x[j] = y[j]

\* x >= y for floats x, y >= 0
FloatGE(x, y) ==
    IF IsZero(y) THEN TRUE
    ELSE IF IsZero(x) THEN FALSE
    ELSE IF x.exp # y.exp THEN x.exp > y.exp
    ELSE SigGE(x.sig, y.sig)

(***************************************************************************)
(* Bounds of the model.                                                    *)
(***************************************************************************)
\* SpecSim: ages run from -1 (published tomorrow) to MaxAge days
MaxAge == 11

\* SpecSim, SpecScore: view counts run from 0 to MaxViewCount
MaxViewCount == 15

\* SpecBench: at most MaxRows trajectory points, each of 0..MaxCum views
MaxRows == 4

MaxCum == 2

\* SpecScenario: the peers are up to ScenarioSlack days older than the target
ScenarioSlack == 2

\* Spec: the channel has at most MaxUploads uploads, each 0..MaxUploadAge
\* days old with no views or MaxUploadViews views
MaxUploads == 2

MaxUploadAge == 4

MaxUploadViews == 1

(***************************************************************************)
(* The clock.                                                              *)
(***************************************************************************)
VARIABLE today    \* datetime.datetime.now().date(), counted in days

(***************************************************************************)
(* Data.  A video is a row of channel_videos as load_channel_videos_from_db *)
(* returns it, cut to the fields the analysis reads.  published_at is TEXT: *)
(* iso says whether datetime.fromisoformat accepts it, day is the date it   *)
(* denotes, counted in days.                                                *)
(***************************************************************************)
NotADate == [iso |-> FALSE, day |-> 0]

PublishedOn(day) == [iso |-> TRUE, day |-> day]

Video(id, publishedAt, viewCount, isShort) ==
    [videoId |-> id, publishedAt |-> publishedAt, viewCount |-> viewCount,
     isShort |-> isShort]

NoVideo == Video("None", NotADate, 0, FALSE)

\* (today - pub_date).days
AgeDays(publishedAt) == today - publishedAt.day

Min(a, b) == IF a <= b THEN a ELSE b

(***************************************************************************)
(* generate_historical_data(video_map, max_days, is_short).  video_map is  *)
(* the dict in insertion order; is_short is "None", "True" or "False".     *)
(***************************************************************************)
\* the day index counted from the wrong end
DailyValReversed(d0, total, limit) ==
    FloatToInt(FloatMulInt(limit - d0 + 1, FloatDiv(total, limit)))

\* daily_val = int((d+1) * (total / limit)), d0 = d + 1.  Float division
\* and product round a negative total as they round its magnitude, and int()
\* truncates towards zero
DailyVal(d0, total, limit) ==
    IF total < 0
    THEN 0 - FloatToInt(FloatMulInt(d0, FloatDiv(0 - total, limit)))
    ELSE FloatToInt(FloatMulInt(d0, FloatDiv(total, limit)))

\* the rows of a loop that stops one day early
LinearRowsShort(vid_id, total, limit) ==
    [d0 \in 1..(limit - 1) |->
        [videoId |-> vid_id, day |-> d0 - 1,
         cumulative_views |-> DailyVal(d0, total, limit)]]

\* the rows appended for one video whose filters passed
LinearRows(vid_id, total, limit) ==
    [d0 \in 1..limit |->
        [videoId |-> vid_id, day |-> d0 - 1,
         cumulative_views |-> DailyVal(d0, total, limit)]]

\* the loop body with no test of age_days < 3
VideoRowsAnyAge(info, max_days, is_short) ==
    IF is_short # "None" /\ info.isShort # (is_short = "True") THEN << >>
    ELSE IF ~info.publishedAt.iso THEN << >>
    ELSE IF Min(AgeDays(info.publishedAt), max_days) <= 0 THEN << >>
    ELSE LinearRows(info.videoId, info.viewCount,
                    Min(AgeDays(info.publishedAt), max_days))

\* the body of the loop over video_map.items(): the rows one video appends
VideoRows(info, max_days, is_short) ==
    IF is_short # "None" /\ info.isShort # (is_short = "True") THEN << >>
    ELSE IF ~info.publishedAt.iso THEN << >>
    ELSE IF AgeDays(info.publishedAt) < 3 THEN << >>
    ELSE IF Min(AgeDays(info.publishedAt), max_days) <= 0 THEN << >>
    ELSE LinearRows(info.videoId, info.viewCount,
                    Min(AgeDays(info.publishedAt), max_days))

RECURSIVE generate_historical_data(_, _, _)
generate_historical_data(video_map, max_days, is_short) ==
    IF video_map = << >> THEN << >>
    ELSE generate_historical_data(SubSeq(video_map, 1, Len(video_map) - 1),
                                  max_days, is_short)
         \o VideoRows(video_map[Len(video_map)], max_days, is_short)

(***************************************************************************)
(* simulate_video_performance(video_info, bench_df); bench_df is not read. *)
(***************************************************************************)
\* age_days after the try/except and the floor at 1
SimAgeDays(video_info) ==
    IF ~video_info.publishedAt.iso THEN 1
    ELSE IF AgeDays(video_info.publishedAt) < 1 THEN 1
    ELSE AgeDays(video_info.publishedAt)

\* cv = int(viewCount * ((d+1) / age_days)), d0 = d + 1
FractionVal(d0, viewCount, age_days) ==
    FloatToInt(FloatMulInt(viewCount, FloatDiv(d0, age_days)))

simulate_video_performance(video_info) ==
    [d0 \in 1..SimAgeDays(video_info) |->
        [day |-> d0 - 1,
         cumulative_views |->
             FractionVal(d0, video_info.viewCount, SimAgeDays(video_info)),
         projected |-> FALSE]]

(***************************************************************************)
(* calculate_benchmark(df).  pandas returns float64 columns; every value   *)
(* it computes here is a multiple of 1/8 far below 2^53 (quantile weights  *)
(* 0.25 and 0.75 are quarters, channel_average halves a sum), so float64   *)
(* holds each of them exactly.  The model keeps median, lower_band,        *)
(* upper_band and channel_average as integers counted in 1/Fixed views.    *)
(***************************************************************************)
Fixed == 2 * 4

Days(df) == {df[i].day : i \in 1..Len(df)}

\* the k-th smallest day: groupby("day") sorts its keys
KthDay(days, k) == CHOOSE d \in days : Cardinality({e \in days : e < d}) = k - 1

MaxDay(days) == CHOOSE d \in days : \A e \in days : e <= d

\* grouped["cumulative_views"] of one day, in the order the rows are listed
RowsOfDay(df, day) == SelectSeq(df, LAMBDA r : r.day = day)

GroupValues(df, day) ==
    [i \in 1..Len(RowsOfDay(df, day)) |-> RowsOfDay(df, day)[i].cumulative_views]

\* the values as listed, with no ordering step
Unsorted(vals) == vals

\* the nearest lower order statistic, with no interpolation
QuantileLower(x, q4) == Fixed * x[(q4 * (Len(x) - 1)) \div 4 + 1]

\* the order statistics of a group: median and quantile sort the values
SortedValues(vals) ==
    [k \in 1..Len(vals) |->
        CHOOSE v \in {vals[i] : i \in 1..Len(vals)} :
            /\ Cardinality({i \in 1..Len(vals) : vals[i] < v}) < k
            /\ k <= Cardinality({i \in 1..Len(vals) : vals[i] <= v})]

\* quantile(q4 / 4), linear interpolation: position q*(n-1) between the
\* order statistics x[i] and x[i+1]; the result in 1/Fixed views
Quantile(x, q4) ==
    LET pos4  == q4 * (Len(x) - 1)
        i     == pos4 \div 4 + 1
        frac4 == pos4 % 4
    IN  IF frac4 = 0 THEN Fixed * x[i]
        ELSE (Fixed \div 4) * (4 * x[i] + frac4 * (x[i + 1] - x[i]))

\* median: the middle order statistic, or the mean of the two middle ones
Median(x) ==
    IF Len(x) % 2 = 1 THEN Fixed * x[(Len(x) + 1) \div 2]
    ELSE (Fixed \div 2) * (x[Len(x) \div 2] + x[Len(x) \div 2 + 1])

\* the two quantiles exchanged
BenchmarkRowSwapped(day, x) ==
    [day             |-> day,
     median          |-> Median(x),
     count           |-> Len(x),
     lower_band      |-> Quantile(x, 3),
     upper_band      |-> Quantile(x, 1),
     channel_average |-> (Quantile(x, 1) + Quantile(x, 3)) \div 2]

BenchmarkRow(day, x) ==
    [day             |-> day,
     median          |-> Median(x),
     count           |-> Len(x),
     lower_band      |-> Quantile(x, 1),
     upper_band      |-> Quantile(x, 3),
     channel_average |-> (Quantile(x, 1) + Quantile(x, 3)) \div 2]

\* a row for every day from the first to the last, a missing day taking the
\* values of the day before it
FilledBenchmark(df) ==
    IF df = << >> THEN << >>
    ELSE [k \in 1..(MaxDay(Days(df)) - KthDay(Days(df), 1) + 1) |->
             BenchmarkRow(KthDay(Days(df), 1) + k - 1,
                          SortedValues(GroupValues(df,
                              MaxDay({d \in Days(df) :
                                         d <= KthDay(Days(df), 1) + k - 1}))))]

calculate_benchmark(df) ==
    IF df = << >> THEN << >>
    ELSE [k \in 1..Cardinality(Days(df)) |->
             BenchmarkRow(KthDay(Days(df), k),
                          SortedValues(GroupValues(df, KthDay(Days(df), k))))]

(***************************************************************************)
(* classify_outlier_score(view_count, channel_avg).  channel_avg comes in  *)
(* 1/Fixed views, so view_count / channel_avg is the float quotient of     *)
(* Fixed * view_count by it.  The thresholds are the floats the literals   *)
(* 2.0, 1.5, 1.2, 0.8 and 0.5 denote.                                       *)
(***************************************************************************)
Sentinel == FloatDiv(9999, 10)

Outlier(category, ratio) == [outlier_cat |-> category, ratio |-> ratio]

\* the thresholds compared with > instead of >=
ClassifiedStrict(ratio) ==
    IF ~FloatGE(FloatDiv(2, 1), ratio)
    THEN Outlier("Significant Positive Outlier", ratio)
    ELSE IF ~FloatGE(FloatDiv(3, 2), ratio) THEN Outlier("Positive Outlier", ratio)
    ELSE IF ~FloatGE(FloatDiv(6, 5), ratio)
    THEN Outlier("Slight Positive Outlier", ratio)
    ELSE IF ~FloatGE(FloatDiv(4, 5), ratio) THEN Outlier("Normal Performance", ratio)
    ELSE IF ~FloatGE(FloatDiv(1, 2), ratio)
    THEN Outlier("Slight Negative Outlier", ratio)
    ELSE Outlier("Significant Negative Outlier", ratio)

Classified(ratio) ==
    IF FloatGE(ratio, FloatDiv(2, 1))
    THEN Outlier("Significant Positive Outlier", ratio)
    ELSE IF FloatGE(ratio, FloatDiv(3, 2)) THEN Outlier("Positive Outlier", ratio)
    ELSE IF FloatGE(ratio, FloatDiv(6, 5))
    THEN Outlier("Slight Positive Outlier", ratio)
    ELSE IF FloatGE(ratio, FloatDiv(4, 5)) THEN Outlier("Normal Performance", ratio)
    ELSE IF FloatGE(ratio, FloatDiv(1, 2))
    THEN Outlier("Slight Negative Outlier", ratio)
    ELSE Outlier("Significant Negative Outlier", ratio)

\* the guard against a zero average left out: the division raises
ClassifyUnguarded(view_count, channel_avg) ==
    IF channel_avg = 0 THEN Outlier("ZeroDivisionError", FloatZero)
    ELSE Classified(FloatDiv(Fixed * view_count, channel_avg))

classify_outlier_score(view_count, channel_avg) ==
    IF channel_avg <= 0 THEN Outlier("Significant Positive Outlier", Sentinel)
    ELSE Classified(FloatDiv(Fixed * view_count, channel_avg))

\* nothing classified yet
NoOutlier == Outlier("None", FloatZero)

(***************************************************************************)
(* State.                                                                  *)
(***************************************************************************)
VARIABLES
    pc,             \* which step was made; in Spec, how the detail view ended
    sel,            \* the video under analysis
    video_map,      \* the videos handed to generate_historical_data
    max_days,       \* its max_days argument
    is_short,       \* its is_short argument
    df_hist,        \* the rows generate_historical_data returned
    perf_df,        \* the rows simulate_video_performance returned
    bench,          \* the rows calculate_benchmark returned
    df_again,       \* the same points listed in another order
    bench_again,    \* calculate_benchmark of df_again
    final_day,      \* the day whose benchmark row is looked up
    channel_avg,    \* the channel average used for scoring, in 1/Fixed views
    outlier,        \* what classify_outlier_score returned
    channel_id,     \* st.session_state["channel_id"]
    selected_video, \* st.session_state["selected_video"]
    query_params,   \* the query string of the page
    db,             \* the rows of channel_videos, videos.db
    youtube,        \* the uploads the YouTube API lists for the channel
    videos_view,    \* what the Videos tab shows
    shorts_view,    \* what the Shorts tab shows
    loaded          \* the Load Channel handler in the last run: the id it
                    \* extracted, the selection it left, whether it fetched

analysis == <<pc, sel, video_map, max_days, is_short, df_hist, perf_df, bench,
              final_day, channel_avg, outlier>>

session == <<channel_id, selected_video, query_params, db, youtube,
             videos_view, shorts_view, loaded>>

vars == <<today, analysis, df_again, bench_again, session>>

(***************************************************************************)
(* The detail view's analysis (Videos tab 558-580, Shorts tab 734-752).    *)
(***************************************************************************)
\* the lookup one day past the last benchmark day
FinalDayPast(video_age, bench_df) == Min(video_age, MaxDay(Days(bench_df)) + 1)

\* final_day = min(video_age-1, bench["day"].max())
FinalDay(video_age, bench_df) == Min(video_age - 1, MaxDay(Days(bench_df)))

\* the row of the day after the one asked for
RowsAfter(bench_df, day) == SelectSeq(bench_df, LAMBDA r : r.day = day + 1)

\* row = bench.loc[bench["day"] == final_day]
RowsAt(bench_df, day) == SelectSeq(bench_df, LAMBDA r : r.day = day)

\* channel_avg = 1 if row.empty else row["channel_average"].values[0]
ChannelAvg(bench_df, day) ==
    IF RowsAt(bench_df, day) = << >> THEN Fixed * 1
    ELSE RowsAt(bench_df, day)[1].channel_average

NoDay == 0 - 1

(***************************************************************************)
(* SpecSim: the two simulators applied to one entity.                      *)
(***************************************************************************)
\* no page is open: the session and the database play no part
NoParams == [video |-> "None", tab |-> "None"]

\* Load Channel was not pressed
NoLoad ==
    [pressed |-> FALSE, ch_id |-> "None", selected_video |-> "None",
     fetch |-> FALSE]

NoSession ==
    /\ loaded = NoLoad
    /\ channel_id = "None"
    /\ selected_video = "None"
    /\ query_params = NoParams
    /\ db = << >>
    /\ youtube = << >>
    /\ videos_view = "None"
    /\ shorts_view = "None"

Untouched ==
    /\ NoSession
    /\ df_hist = << >>
    /\ perf_df = << >>
    /\ bench = << >>
    /\ df_again = << >>
    /\ bench_again = << >>
    /\ final_day = NoDay
    /\ channel_avg = 0
    /\ outlier = NoOutlier

InitSim ==
    /\ today = MaxAge
    /\ pc = "input"
    /\ \E d \in 0..(MaxAge + 1), iso \in BOOLEAN, v \in 0..MaxViewCount :
           /\ iso \/ d = 0
           /\ sel = Video("v1", [iso |-> iso, day |-> d], v, FALSE)
    /\ video_map = <<sel>>
    /\ max_days \in 0..(MaxAge + 1)
    /\ is_short = "None"
    /\ Untouched

GenerateHistoricalData ==
    /\ pc = "input"
    /\ df_hist' = generate_historical_data(video_map, max_days, is_short)
    /\ pc' = "generated"
    /\ UNCHANGED <<today, sel, video_map, max_days, is_short, perf_df, bench,
                   df_again, bench_again, final_day, channel_avg, outlier,
                   session>>

SimulateVideoPerformance ==
    /\ pc = "input"
    /\ perf_df' = simulate_video_performance(sel)
    /\ pc' = "simulated"
    /\ UNCHANGED <<today, sel, video_map, max_days, is_short, df_hist, bench,
                   df_again, bench_again, final_day, channel_avg, outlier,
                   session>>

NextSim == GenerateHistoricalData \/ SimulateVideoPerformance

SpecSim == InitSim /\ [][NextSim]_vars

(***************************************************************************)
(* SpecInvalid: generate_historical_data and calculate_benchmark on one    *)
(* peer that may be invalid: published in the future, or with a negative   *)
(* view count.                                                             *)
(***************************************************************************)
InitInvalid ==
    /\ today = MaxAge
    /\ pc = "input"
    /\ \E d \in 0..(MaxAge + 1), v \in (0 - MaxViewCount)..MaxViewCount :
           sel = Video("v1", PublishedOn(d), v, FALSE)
    /\ video_map = <<sel>>
    /\ max_days \in 0..(MaxAge + 1)
    /\ is_short = "None"
    /\ Untouched

\* bench = calculate_benchmark(df_hist)
CalculateBenchmark ==
    /\ pc = "generated"
    /\ bench' = calculate_benchmark(df_hist)
    /\ pc' = "benchmarked"
    /\ UNCHANGED <<today, sel, video_map, max_days, is_short, df_hist, perf_df,
                   df_again, bench_again, final_day, channel_avg, outlier,
                   session>>

NextInvalid == GenerateHistoricalData \/ CalculateBenchmark

SpecInvalid == InitInvalid /\ [][NextInvalid]_vars

(***************************************************************************)
(* SpecBench: calculate_benchmark on every listing of up to MaxRows points *)
(* over two days, then on the same points with two of them exchanged.      *)
(***************************************************************************)
BenchDays == {0, 2}

Point(day, views) == [videoId |-> "v1", day |-> day, cumulative_views |-> views]

Points == {Point(d, v) : d \in BenchDays, v \in 0..MaxCum}

Exchange(df, i, j) ==
    [k \in 1..Len(df) |-> IF k = i THEN df[j] ELSE IF k = j THEN df[i] ELSE df[k]]

InitBench ==
    /\ today = 0
    /\ pc = "generated"
    /\ sel = NoVideo
    /\ video_map = << >>
    /\ max_days = 0
    /\ is_short = "None"
    /\ \E n \in 0..MaxRows : df_hist \in [1..n -> Points]
    /\ NoSession
    /\ perf_df = << >>
    /\ bench = << >>
    /\ df_again = << >>
    /\ bench_again = << >>
    /\ final_day = NoDay
    /\ channel_avg = 0
    /\ outlier = NoOutlier

Reaggregate ==
    /\ pc = "benchmarked"
    /\ \E i, j \in 1..Len(df_hist) :
           /\ i <= j
           /\ df_again' = Exchange(df_hist, i, j)
    /\ bench_again' = calculate_benchmark(df_again')
    /\ pc' = "reaggregated"
    /\ UNCHANGED <<today, sel, video_map, max_days, is_short, df_hist, perf_df,
                   bench, final_day, channel_avg, outlier, session>>

NextBench == CalculateBenchmark \/ Reaggregate

SpecBench == InitBench /\ [][NextBench]_vars

(***************************************************************************)
(* SpecScore: classify_outlier_score on every view count and every channel *)
(* average that is a multiple of 1/Fixed.                                  *)
(***************************************************************************)
InitScore ==
    /\ today = 0
    /\ pc = "benchmarked"
    /\ \E v \in 0..MaxViewCount : sel = Video("v1", NotADate, v, FALSE)
    /\ video_map = << >>
    /\ max_days = 0
    /\ is_short = "None"
    /\ df_hist = << >>
    /\ perf_df = << >>
    /\ bench = << >>
    /\ df_again = << >>
    /\ bench_again = << >>
    /\ final_day = NoDay
    /\ channel_avg \in 0..(Fixed * MaxViewCount)
    /\ outlier = NoOutlier
    /\ NoSession

ClassifyOutlierScore ==
    /\ pc = "benchmarked"
    /\ outlier' = classify_outlier_score(sel.viewCount, channel_avg)
    /\ pc' = "classified"
    /\ UNCHANGED <<today, sel, video_map, max_days, is_short, df_hist, perf_df,
                   bench, df_again, bench_again, final_day, channel_avg,
                   session>>

NextScore == ClassifyOutlierScore

SpecScore == InitScore /\ [][NextScore]_vars

(***************************************************************************)
(* SpecScenario: a target of age 30 with 10000 views scored against three  *)
(* peers of 6000, 8000 and 12000 views that are at least as old, by the    *)
(* steps of the detail view.                                               *)
(***************************************************************************)
ScenarioViews == {6000, 8000, 12000}

ScenarioTarget == Video("target", PublishedOn(0), 10000, FALSE)

ScenarioPeer(id, slack, views) == Video(id, PublishedOn(0 - slack), views, FALSE)

InitScenario ==
    /\ today = 30
    /\ pc = "input"
    /\ sel = ScenarioTarget
    /\ \E a, b, c \in 0..ScenarioSlack, va, vb, vc \in ScenarioViews :
           /\ {va, vb, vc} = ScenarioViews
           /\ video_map = <<ScenarioPeer("a", a, va), ScenarioPeer("b", b, vb),
                            ScenarioPeer("c", c, vc)>>
    /\ max_days = AgeDays(sel.publishedAt)
    /\ is_short = "False"
    /\ Untouched

ScoreVideo ==
    /\ pc = "benchmarked"
    /\ bench # << >>
    /\ perf_df' = simulate_video_performance(sel)
    /\ final_day' = FinalDay(AgeDays(sel.publishedAt), bench)
    /\ channel_avg' = ChannelAvg(bench, final_day')
    /\ outlier' = classify_outlier_score(sel.viewCount, channel_avg')
    /\ pc' = "scored"
    /\ UNCHANGED <<today, sel, video_map, max_days, is_short, df_hist, bench,
                   df_again, bench_again, session>>

NextScenario ==
    \/ GenerateHistoricalData
    \/ CalculateBenchmark
    \/ ScoreVideo

SpecScenario == InitScenario /\ [][NextScenario]_vars

(***************************************************************************)
(* SpecTarget: the evaluation of a target listed among its own peers,      *)
(* alone or with one other video of its category.                          *)
(***************************************************************************)
InitTarget ==
    /\ today = MaxAge
    /\ pc = "input"
    /\ \E d \in 0..MaxAge, v \in 0..MaxViewCount :
           sel = Video("target", PublishedOn(d), v, FALSE)
    /\ \/ video_map = <<sel>>
       \/ \E d \in 0..MaxAge, v \in {0, MaxViewCount} :
              video_map = <<sel, Video("peer", PublishedOn(d), v, FALSE)>>
    /\ max_days = AgeDays(sel.publishedAt)
    /\ is_short = "False"
    /\ Untouched

SpecTarget == InitTarget /\ [][NextScenario]_vars

(***************************************************************************)
(* The page.  One run of the script renders the Home, Videos and Shorts    *)
(* tabs in turn; st.experimental_rerun() and an uncaught exception both    *)
(* end the run where they occur, and a rerun starts the script again.      *)
(***************************************************************************)
\* extract_channel_id(url): a /channel/UC... URL or a bare UC... id gives the
\* id; /c/, /user/ and /@ URLs (and /channel/ URLs without UC) give what
\* get_channel_id_from_identifier finds, `found`; anything else gives None
extract_channel_id(url, found) ==
    IF url.form = "channel" /\ url.uc THEN url.identifier
    ELSE IF url.form \in {"channel", "c", "user", "@"} THEN found
    ELSE IF url.uc THEN url.identifier
    ELSE "None"

\* vids = [v for v in all_vids if not v["isShort"]], or the Shorts tab's
\* [v for v in all_vids if v["isShort"]]
\* (sort_and_slice_videos then reorders vids in place; the order decides
\* only the order of the rows of df_hist, which calculate_benchmark groups
\* and sorts, so the videos are kept in the order the database lists them)
TabVids(all_vids, tab) ==
    SelectSeq(all_vids, LAMBDA v : v.isShort = (tab = "shorts"))

\* next((x for x in vids if x["videoId"] == selected), None)
FindVideo(vids, selected) ==
    IF \E i \in 1..Len(vids) : vids[i].videoId = selected
    THEN vids[CHOOSE i \in 1..Len(vids) :
                  /\ vids[i].videoId = selected
                  /\ \A j \in 1..(i - 1) : vids[j].videoId # selected]
    ELSE NoVideo

Analysed(shown, target, vids, video_age, short, hist, bench_df, perf, day, avg, out) ==
    [shown |-> shown, sel |-> target, video_map |-> vids, max_days |-> video_age,
     is_short |-> short, df_hist |-> hist, bench |-> bench_df, perf_df |-> perf,
     final_day |-> day, channel_avg |-> avg, outlier |-> out]

NoAnalysis ==
    Analysed("None", NoVideo, << >>, 0, "None", << >>, << >>, << >>, NoDay, 0,
             NoOutlier)

\* from the final day's row on: the lookup and classify_outlier_score
Scored(target, vids, video_age, short, hist, bench_df, day) ==
    Analysed("scored", target, vids, video_age, short, hist, bench_df,
             simulate_video_performance(target), day, ChannelAvg(bench_df, day),
             classify_outlier_score(target.viewCount, ChannelAvg(bench_df, day)))

\* from calculate_benchmark on
Benchmarked(target, vids, video_age, short, hist, bench_df) ==
    IF bench_df = << >>
    THEN Analysed("benchmark_empty", target, vids, video_age, short, hist,
                  bench_df, << >>, NoDay, 0, NoOutlier)
    ELSE Scored(target, vids, video_age, short, hist, bench_df,
                FinalDay(video_age, bench_df))

\* from generate_historical_data on
Generated(target, vids, video_age, short, hist) ==
    IF hist = << >>
    THEN Analysed("not_enough_data", target, vids, video_age, short, hist,
                  << >>, << >>, NoDay, 0, NoOutlier)
    ELSE Benchmarked(target, vids, video_age, short, hist,
                     calculate_benchmark(hist))

\* the hidden outlier analysis of a detail view.  video_age is computed with
\* no try/except: a published_at that fromisoformat rejects raises here
Analysis(target, vids, short) ==
    IF ~target.publishedAt.iso
    THEN Analysed("error", target, vids, 0, short, << >>, << >>, << >>, NoDay, 0,
                  NoOutlier)
    ELSE Generated(target, vids, AgeDays(target.publishedAt), short,
                   generate_historical_data(vids, AgeDays(target.publishedAt),
                                            short))

TabOut(view, selected, params, stop, a) ==
    [view |-> view, selected_video |-> selected, query_params |-> params,
     stop |-> stop, analysis |-> a]

\* the detail view of the selected video; `back` says the tab's Back button
\* is being pressed
Detail(target, vids, tab, selected, params, back, a) ==
    IF target = NoVideo THEN TabOut("not_found", selected, params, FALSE, NoAnalysis)
    ELSE IF a.shown = "error" THEN TabOut("error", selected, params, TRUE, a)
    ELSE IF back THEN TabOut("rerun", "None", params, TRUE, a)
    ELSE TabOut("detail", selected, params, FALSE, a)

\* the target of a tab is looked up among all videos, not the tab's own
TabTargetAnyKind(all_vids, tab, selected) == FindVideo(all_vids, selected)

\* sel = next((x for x in vids if x["videoId"] == selected_video), None)
TabTarget(all_vids, tab, selected) == FindVideo(TabVids(all_vids, tab), selected)

\* the body of `with tabs[1]:` (tab = "videos") or `with tabs[2]:` ("shorts")
TabRun(channel, selected, params, all_vids, tab, back) ==
    IF channel = "None" THEN TabOut("no_channel", selected, params, FALSE, NoAnalysis)
    ELSE IF TabVids(all_vids, tab) = << >>
    THEN TabOut("none_found", selected, params, FALSE, NoAnalysis)
    ELSE IF selected = "None"
    THEN IF params.video # "None" /\ params.tab = tab
         THEN TabOut("rerun", params.video, NoParams, TRUE, NoAnalysis)
         ELSE TabOut("grid", selected, params, FALSE, NoAnalysis)
    ELSE Detail(TabTarget(all_vids, tab, selected), TabVids(all_vids, tab), tab,
                selected, params, back,
                Analysis(TabTarget(all_vids, tab, selected),
                         TabVids(all_vids, tab),
                         IF tab = "shorts" THEN "True" ELSE "False"))

PageOut(v, sh) ==
    [videos_view |-> v.view, shorts_view |-> sh.view,
     selected_video |-> sh.selected_video, query_params |-> sh.query_params,
     rerun |-> "rerun" \in {v.view, sh.view},
     analysis |-> IF v.analysis.shown # "None" THEN v.analysis ELSE sh.analysis]

\* the Shorts tab is not reached when the Videos tab ended the run
Skipped(v) == TabOut("skipped", v.selected_video, v.query_params, TRUE, NoAnalysis)

AfterVideos(v, channel, all_vids, backShorts) ==
    IF v.stop THEN PageOut(v, Skipped(v))
    ELSE PageOut(v, TabRun(channel, v.selected_video, v.query_params, all_vids,
                           "shorts", backShorts))

\* one run of the script below the Home tab
ScriptRun(channel, selected, params, all_vids, backVideos, backShorts) ==
    AfterVideos(TabRun(channel, selected, params, all_vids, "videos", backVideos),
                channel, all_vids, backShorts)

Rerun(out, channel, all_vids) ==
    IF out.rerun
    THEN ScriptRun(channel, out.selected_video, out.query_params, all_vids,
                   FALSE, FALSE)
    ELSE out

\* the run an event starts, and the rerun it asks for
Page(channel, selected, params, all_vids, backVideos, backShorts) ==
    Rerun(ScriptRun(channel, selected, params, all_vids, backVideos, backShorts),
          channel, all_vids)

\* the page as `out` leaves it
Left(out) ==
    /\ selected_video' = out.selected_video
    /\ query_params' = out.query_params
    /\ videos_view' = out.videos_view
    /\ shorts_view' = out.shorts_view
    /\ pc' = out.analysis.shown
    /\ sel' = out.analysis.sel
    /\ video_map' = out.analysis.video_map
    /\ max_days' = out.analysis.max_days
    /\ is_short' = out.analysis.is_short
    /\ df_hist' = out.analysis.df_hist
    /\ bench' = out.analysis.bench
    /\ perf_df' = out.analysis.perf_df
    /\ final_day' = out.analysis.final_day
    /\ channel_avg' = out.analysis.channel_avg
    /\ outlier' = out.analysis.outlier

Shows(page) == \E out \in {page} : Left(out)

(***************************************************************************)
(* Spec: a browser session on the page.                                    *)
(***************************************************************************)
Urls ==
    {[form |-> "channel", uc |-> TRUE, identifier |-> "UC1"],
     [form |-> "@", uc |-> FALSE, identifier |-> "name"],
     [form |-> "other", uc |-> FALSE, identifier |-> "junk"]}

UploadDates == {NotADate} \cup {PublishedOn(MaxUploadAge - a) : a \in 0..MaxUploadAge}

Uploads ==
    {Video("None", p, v, sh) :
        p \in UploadDates, v \in {0, MaxUploadViews}, sh \in BOOLEAN}

\* a total order on Uploads, to list each set of uploads once
Rank(u) ==
    ((IF u.publishedAt.iso THEN u.publishedAt.day + 1 ELSE 0)
        * (MaxUploadViews + 1) + u.viewCount) * 2 + (IF u.isShort THEN 1 ELSE 0)

VideoId(i) == ToString(i)

PageParams ==
    {NoParams} \cup {[video |-> VideoId(i), tab |-> t] :
                        i \in 1..MaxUploads, t \in {"videos", "shorts"}}

Init ==
    /\ today = MaxUploadAge
    /\ \E n \in 0..MaxUploads : \E u \in [1..n -> Uploads] :
           /\ \A i \in 1..(n - 1) : Rank(u[i]) <= Rank(u[i + 1])
           /\ youtube = [i \in 1..n |-> [u[i] EXCEPT !.videoId = VideoId(i)]]
    /\ db = << >>
    /\ channel_id = "None"
    /\ selected_video = "None"
    /\ query_params \in PageParams
    /\ loaded = NoLoad
    /\ videos_view = "no_channel"
    /\ shorts_view = "no_channel"
    /\ pc = "None"
    /\ sel = NoVideo
    /\ video_map = << >>
    /\ max_days = 0
    /\ is_short = "None"
    /\ df_hist = << >>
    /\ perf_df = << >>
    /\ bench = << >>
    /\ df_again = << >>
    /\ bench_again = << >>
    /\ final_day = NoDay
    /\ channel_avg = 0
    /\ outlier = NoOutlier

\* the rows in the database if every load fetched and saved
LoadedFresh(existing, fetched) == fetched

\* the rows in the database once Load Channel has run for ch_id: what is
\* cached, or else what was fetched and saved
Loaded(existing, fetched) == IF Len(existing) = 0 THEN fetched ELSE existing

\* the handler that leaves the selection as it was
HomeKeepsSelection(ch_id, channel, selected, existing, fetched) ==
    IF ch_id = "None"
    THEN [channel_id |-> channel, selected_video |-> selected, db |-> existing,
          fetch |-> FALSE]
    ELSE [channel_id |-> ch_id, selected_video |-> selected,
          db |-> Loaded(existing, fetched), fetch |-> Len(existing) = 0]

\* the body of `if st.button("Load Channel"):` for ch_id = extract_channel_id(url):
\* the session state and the database as it leaves them, and whether
\* fetch_channel_videos was called
Home(ch_id, channel, selected, existing, fetched) ==
    IF ch_id = "None"
    THEN [channel_id |-> channel, selected_video |-> selected, db |-> existing,
          fetch |-> FALSE]
    ELSE [channel_id |-> ch_id, selected_video |-> "None",
          db |-> Loaded(existing, fetched), fetch |-> Len(existing) = 0]

\* ch_id = extract_channel_id(url.strip()) for the URLs that can be typed
\* and the ids the search behind /c/, /user/ and /@ URLs can find
ExtractedIds ==
    {extract_channel_id(url, found) : url \in Urls, found \in {"None", "UC1"}}

\* "Load Channel" pressed on the Home tab with a URL in the text input
LoadChannel ==
    \E ch_id \in ExtractedIds :
        /\ \E h \in {Home(ch_id, channel_id, selected_video, db, youtube)} :
               /\ channel_id' = h.channel_id
               /\ db' = h.db
               /\ loaded' = [pressed |-> TRUE, ch_id |-> ch_id,
                             selected_video |-> h.selected_video,
                             fetch |-> h.fetch]
               /\ Shows(Page(h.channel_id, h.selected_video, query_params, h.db,
                             FALSE, FALSE))
        /\ UNCHANGED <<today, youtube, df_again, bench_again>>

\* "Back to Videos" pressed in the Videos tab's detail view
BackToVideos ==
    /\ videos_view = "detail"
    /\ Shows(Page(channel_id, selected_video, query_params, db, TRUE, FALSE))
    /\ loaded' = NoLoad
    /\ UNCHANGED <<today, channel_id, db, youtube, df_again, bench_again>>

\* "Back to Shorts" pressed in the Shorts tab's detail view
BackToShorts ==
    /\ shorts_view = "detail"
    /\ Shows(Page(channel_id, selected_video, query_params, db, FALSE, TRUE))
    /\ loaded' = NoLoad
    /\ UNCHANGED <<today, channel_id, db, youtube, df_again, bench_again>>

\* the page opened anew with a query string, as a click on a card does
\* (window.location.href = '?video=...&tab=...'): a new session
OpenPage ==
    /\ channel_id' = "None"
    /\ query_params' \in PageParams
    /\ Shows([Page("None", "None", query_params', db, FALSE, FALSE)
                 EXCEPT !.query_params = query_params'])
    /\ loaded' = NoLoad
    /\ UNCHANGED <<today, db, youtube, df_again, bench_again>>

Next == LoadChannel \/ BackToVideos \/ BackToShorts \/ OpenPage

Spec == Init /\ [][Next]_vars

(***************************************************************************)
(* SpecCache: the same session while the channel goes on publishing.       *)
(***************************************************************************)
\* the channel publishes a video: the API lists one more upload, no page runs
Upload ==
    /\ Len(youtube) < MaxUploads
    /\ \E short \in BOOLEAN :
           youtube' = Append(youtube, Video(VideoId(Len(youtube) + 1),
                                            PublishedOn(today), 0, short))
    /\ UNCHANGED <<today, analysis, df_again, bench_again, channel_id,
                   selected_video, query_params, db, videos_view, shorts_view,
                   loaded>>

NextCache == Next \/ Upload

SpecCache == Init /\ [][NextCache]_vars

LastRow(df) == df[Len(df)]

\* C1: Anchoring.  A peer at least 3 days old simulated to a horizon of at
\* least its age, and a target at least 1 day old, end their trajectory on
\* exactly the entity's viewCount.
Anchoring ==
    /\ (pc = "generated" /\ sel.publishedAt.iso
            /\ AgeDays(sel.publishedAt) >= 3
            /\ max_days >= AgeDays(sel.publishedAt))
        => (df_hist # << >>
            /\ LastRow(df_hist).cumulative_views = sel.viewCount)
    /\ (pc = "simulated" /\ sel.publishedAt.iso
            /\ AgeDays(sel.publishedAt) >= 1)
        => (perf_df # << >>
            /\ LastRow(perf_df).cumulative_views = sel.viewCount)

\* C2: Monotonicity.  In every trajectory either simulator returns, the day
\* indices of an entity run 0, 1, 2, ... and cumulative_views never falls
\* from one day to the next.
NonDecreasing(df) ==
    \A i \in 2..Len(df) :
        /\ df[i].day = df[i - 1].day + 1
        /\ df[i].cumulative_views >= df[i - 1].cumulative_views

Monotonicity == NonDecreasing(df_hist) /\ NonDecreasing(perf_df)

\* a peer trajectory of several days that actually rises
MonotonicityWitness ==
    /\ pc = "generated"
    /\ Len(df_hist) >= 3
    /\ df_hist[1].cumulative_views < df_hist[2].cumulative_views
    /\ df_hist[2].cumulative_views < LastRow(df_hist).cumulative_views

\* the category the threshold table gives the exact quotient
\* view_count / (channel_avg / Fixed), first match from the top
TableCategory(view_count, avg) ==
    IF Fixed * view_count >= 2 * avg THEN "Significant Positive Outlier"
    ELSE IF 2 * Fixed * view_count >= 3 * avg THEN "Positive Outlier"
    ELSE IF 5 * Fixed * view_count >= 6 * avg THEN "Slight Positive Outlier"
    ELSE IF 5 * Fixed * view_count >= 4 * avg THEN "Normal Performance"
    ELSE IF 2 * Fixed * view_count >= avg THEN "Slight Negative Outlier"
    ELSE "Significant Negative Outlier"

\* C3: Classification.  For a channel average above 0 the category returned
\* is the first bucket of the table that the exact ratio
\* view_count / channel_avg reaches: 2.0, 1.5, 1.2, 0.8, 0.5, else the
\* lowest.
Classification ==
    (pc = "classified" /\ channel_avg > 0)
        => outlier.outlier_cat = TableCategory(sel.viewCount, channel_avg)

\* a ratio of exactly 1.2, which no float holds, lands in its bucket
ClassificationWitness ==
    /\ pc = "classified"
    /\ channel_avg > 0
    /\ 5 * Fixed * sel.viewCount = 6 * channel_avg
    /\ outlier.outlier_cat = "Slight Positive Outlier"

\* C5: Degenerate benchmark.  With a channel average of 0 every view count,
\* 0 included, is given the sentinel ratio 999.9 and the category
\* "Significant Positive Outlier"; nothing is divided.
DegenerateBenchmark ==
    (pc = "classified" /\ channel_avg = 0)
        => outlier = Outlier("Significant Positive Outlier", Sentinel)

DegenerateBenchmarkWitness ==
    /\ pc = "classified"
    /\ channel_avg = 0
    /\ sel.viewCount = 0
    /\ outlier.ratio = Sentinel

\* the bands of one benchmark row enclose its median and its average
RowOrdered(r) ==
    /\ r.lower_band <= r.median
    /\ r.median <= r.upper_band
    /\ r.lower_band <= r.channel_average
    /\ r.channel_average <= r.upper_band
    /\ 2 * r.channel_average = r.lower_band + r.upper_band

\* C8: Percentile ordering.  Every benchmark row has
\* lower_band <= median <= upper_band and
\* lower_band <= channel_average <= upper_band, channel_average being the
\* mean of the two bands.
PercentileOrdering == \A i \in 1..Len(bench) : RowOrdered(bench[i])

\* a group of several points whose bands and median all differ
PercentileOrderingWitness ==
    /\ pc = "benchmarked"
    /\ \E i \in 1..Len(bench) :
           /\ bench[i].count >= 3
           /\ bench[i].lower_band < bench[i].median
           /\ bench[i].median < bench[i].upper_band
           /\ bench[i].channel_average # bench[i].median

\* C9: Idempotence of aggregation.  calculate_benchmark on the same points,
\* listed in the same order or with any two of them exchanged, returns the
\* same rows, and the points handed in are as they were.
Idempotence ==
    pc = "reaggregated"
        => /\ bench_again = bench
           /\ \A i \in 1..Len(df_hist) :
                  Cardinality({k \in 1..Len(df_hist) : df_hist[k] = df_hist[i]})
                      = Cardinality({k \in 1..Len(df_again) : df_again[k] = df_hist[i]})

\* a second call on a listing that differs, over a group of several points
IdempotenceWitness ==
    /\ pc = "reaggregated"
    /\ df_again # df_hist
    /\ \E i \in 1..Len(bench) : bench[i].count >= 3 /\ bench[i].lower_band < bench[i].upper_band

ScenarioRow == RowsAt(bench, 29)

FilteredOut(info, short) ==
    \/ info.isShort # (short = "True")
    \/ ~info.publishedAt.iso
    \/ AgeDays(info.publishedAt) < 3

Evaluated == pc \in {"error", "not_enough_data", "benchmark_empty", "scored"}

\* C6: Insufficient data.  An evaluation in which every peer is filtered out
\* (too young, wrong category, unparsable date) ends in the "not enough data"
\* outcome with no benchmark, no ratio and no category.  Violated: the
\* evaluation of a target whose own date is unparsable raises instead.
InsufficientData ==
    (Evaluated /\ \A i \in 1..Len(video_map) : FilteredOut(video_map[i], is_short))
        => (pc = "not_enough_data" /\ bench = << >> /\ outlier = NoOutlier)

\* the video of the channel a trajectory point was generated from
SourceOf(row) == FindVideo(db, row.videoId)

\* C7: Category purity.  Every trajectory point that enters a benchmark
\* computation comes from a video of the target's category, so no benchmark
\* row aggregates short-form and long-form videos together.
CategoryPurity ==
    Evaluated =>
        /\ \A i \in 1..Len(df_hist) : SourceOf(df_hist[i]).isShort = sel.isShort
        /\ \A i \in 1..Len(video_map) : video_map[i].isShort = sel.isShort
        /\ is_short = (IF sel.isShort THEN "True" ELSE "False")

\* a Short scored on a channel that also has a long-form video old enough
\* to have a trajectory
CategoryPurityWitness ==
    /\ pc = "scored"
    /\ sel.isShort
    /\ Len(df_hist) > 0
    /\ \E i \in 1..Len(db) :
           ~db[i].isShort /\ db[i].publishedAt.iso /\ AgeDays(db[i].publishedAt) >= 3

\* C10: Benchmark lookup.  Scoring uses the benchmark row with the largest
\* day not above min(target's last day, last benchmark day); without a
\* benchmark the evaluation ends without a ratio or a category.
BenchmarkLookup ==
    /\ pc = "scored" =>
           /\ \E i \in 1..Len(bench) :
                  /\ bench[i].day = final_day
                  /\ channel_avg = bench[i].channel_average
           /\ final_day <= Min(max_days - 1, MaxDay(Days(bench)))
           /\ \A i \in 1..Len(bench) :
                  bench[i].day <= Min(max_days - 1, MaxDay(Days(bench)))
                      => bench[i].day <= final_day
           /\ outlier = classify_outlier_score(sel.viewCount, channel_avg)
    /\ (Evaluated /\ bench = << >>) => outlier = NoOutlier

\* a target scored against a benchmark of several days and several peers
BenchmarkLookupWitness ==
    /\ pc = "scored"
    /\ Len(bench) > 3
    /\ \E i \in 1..Len(bench) : bench[i].day = final_day /\ bench[i].count > 1


\* C11: Invalid entities are filtered.  A peer published in the future or
\* with a negative view count contributes no trajectory point, and neither
\* a point nor a benchmark row carries a negative value.  Violated: nothing
\* filters a negative view count.
InvalidFiltered ==
    /\ (pc \in {"generated", "benchmarked"}
            /\ (AgeDays(sel.publishedAt) < 0 \/ sel.viewCount < 0))
           => df_hist = << >>
    /\ \A i \in 1..Len(df_hist) : df_hist[i].cumulative_views >= 0
    /\ \A i \in 1..Len(bench) : bench[i].lower_band >= 0

\* the points of df whose day index is day
PointsOn(df, day) == {i \in 1..Len(df) : df[i].day = day}

\* C12: Trajectory length.  A peer that passes the filters gets exactly
\* limit = min(age, max_days) points, one for each day 0 .. limit-1; with
\* limit <= 0, and for a peer that is filtered out, there is no point.
TrajectoryLength ==
    pc = "generated" =>
        IF sel.publishedAt.iso /\ AgeDays(sel.publishedAt) >= 3
        THEN /\ Len(df_hist) = IF max_days <= 0 THEN 0
                               ELSE Min(AgeDays(sel.publishedAt), max_days)
             /\ \A d \in 0..(Len(df_hist) - 1) :
                    Cardinality(PointsOn(df_hist, d)) = 1
        ELSE df_hist = << >>

\* a trajectory cut by the horizon, not by the peer's age
TrajectoryLengthWitness ==
    /\ pc = "generated"
    /\ max_days >= 3
    /\ AgeDays(sel.publishedAt) > max_days
    /\ Len(df_hist) = max_days

\* C13: Maturity threshold.  No trajectory point of an evaluation comes from
\* a video less than 3 whole days old, the target itself included.
Maturity ==
    Evaluated =>
        /\ \A i \in 1..Len(df_hist) :
               /\ SourceOf(df_hist[i]).publishedAt.iso
               /\ AgeDays(SourceOf(df_hist[i]).publishedAt) >= 3
        /\ (sel.publishedAt.iso /\ AgeDays(sel.publishedAt) < 3)
               => \A i \in 1..Len(df_hist) : df_hist[i].videoId # sel.videoId

\* a target younger than 3 days scored against an older peer
MaturityWitness ==
    /\ pc = "scored"
    /\ AgeDays(sel.publishedAt) \in 1..2
    /\ df_hist # << >>
    /\ Len(video_map) >= 2

\* C14: No gap-filling.  calculate_benchmark returns one row for each day
\* that some input point has and none for any other day, and the count of a
\* row is the number of input points of its day, at least 1.
NoGapFilling ==
    pc \in {"benchmarked", "reaggregated"} =>
        /\ Len(bench) = Cardinality(Days(df_hist))
        /\ Days(bench) = Days(df_hist)
        /\ \A i \in 1..Len(bench) :
               /\ bench[i].count >= 1
               /\ bench[i].count = Cardinality(PointsOn(df_hist, bench[i].day))

\* points on days 0 and 2 and none on day 1
NoGapFillingWitness ==
    /\ pc = "benchmarked"
    /\ Days(df_hist) = {0, 2}
    /\ Len(df_hist) >= 3
    /\ Len(bench) = 2

\* C15: Unreachable fallback.  A non-empty benchmark of an evaluation has
\* the days 0 .. its last day with none missing, and a row for
\* final_day = min(target age - 1, last day), whose channel_average is the
\* one used: the fallback channel_avg = 1 is never taken.
UnreachableFallback ==
    (Evaluated /\ bench # << >>) =>
        /\ pc = "scored"
        /\ Days(bench) = 0..MaxDay(Days(bench))
        /\ final_day = Min(max_days - 1, MaxDay(Days(bench)))
        /\ Cardinality(PointsOn(bench, final_day)) = 1
        /\ \A i \in PointsOn(bench, final_day) :
               channel_avg = bench[i].channel_average

\* a target whose peer is older than itself: the peer's trajectory is cut at
\* the target's age, and the channel average differs from the fallback
UnreachableFallbackWitness ==
    /\ pc = "scored"
    /\ \E i \in 1..Len(video_map) :
           /\ video_map[i].publishedAt.iso
           /\ AgeDays(video_map[i].publishedAt) > max_days
           /\ \E k \in 1..Len(df_hist) : df_hist[k].videoId = video_map[i].videoId
    /\ MaxDay(Days(bench)) = max_days - 1
    /\ channel_avg # Fixed * 1

\* C16: Scoring row content.  Every point aggregated in the benchmark row
\* used for scoring is the last point of its video's trajectory and carries
\* that video's full viewCount, and a target at least 3 days old has a point
\* of its own there.  Violated: int((d+1) * (total / limit)) can fall one
\* short of total on the last day.
ScoringRow ==
    pc = "scored" =>
        /\ \A k \in PointsOn(df_hist, final_day) :
               /\ \A j \in 1..Len(df_hist) :
                      df_hist[j].videoId = df_hist[k].videoId
                          => df_hist[j].day <= final_day
               /\ df_hist[k].cumulative_views
                      = FindVideo(video_map, df_hist[k].videoId).viewCount
        /\ AgeDays(sel.publishedAt) >= 3
               => \E k \in PointsOn(df_hist, final_day) :
                      df_hist[k].videoId = sel.videoId

\* C17: Load Channel transition.  A press of Load Channel that extracts a
\* channel id sets channel_id to it and resets selected_video to None; a
\* press that extracts none leaves channel_id, selected_video and the stored
\* rows as they were.
LoadChannelTransition ==
    [][loaded'.pressed =>
          IF loaded'.ch_id = "None"
          THEN /\ channel_id' = channel_id
               /\ loaded'.selected_video = selected_video
               /\ selected_video' = selected_video
               /\ db' = db
          ELSE /\ channel_id' = loaded'.ch_id
               /\ loaded'.selected_video = "None"]_vars

\* a channel loaded again from the cache, its grid shown with no selection
LoadChannelTransitionWitness ==
    /\ loaded.pressed
    /\ loaded.ch_id # "None"
    /\ ~loaded.fetch
    /\ channel_id = loaded.ch_id
    /\ selected_video = "None"
    /\ videos_view = "grid"

\* C18: Cache-first loading.  Load Channel fetches only when the database
\* holds no row of the channel, the stored rows change only by such a load,
\* and once there is a stored row no later load changes the rows.  (A step
\* that changes youtube is the channel publishing, not a run of the page.)
CacheFirst ==
    [][/\ (youtube' = youtube /\ loaded'.pressed /\ loaded'.fetch)
           => Len(db) = 0
       /\ db' # db => (loaded'.pressed /\ loaded'.fetch /\ Len(db) = 0)
       /\ Len(db) > 0 => db' = db]_vars

\* a load served from the cache after the channel published another video
CacheFirstWitness ==
    /\ loaded.pressed
    /\ ~loaded.fetch
    /\ db # << >>
    /\ Len(youtube) > Len(db)

\* C19: Selection can always be cleared.  Whenever a channel is loaded and a
\* video is selected, the Videos or the Shorts tab shows its detail view
\* with the Back button.  Violated: a selection that is not among the
\* channel's videos, or whose analysis raises, leaves no Back button.
Clearable ==
    (channel_id # "None" /\ selected_video # "None")
        => (videos_view = "detail" \/ shorts_view = "detail")

=============================================================================
